---- MODULE Spec2Model ----
(***************************************************************************)
(* Model of the Mutagen RAG server: the index refresh workflow of          *)
(* IndexManager (src/index_manager.py), the hybrid search pipeline of      *)
(* HybridSearchEngine (src/search_engine.py) and the two server tools      *)
(* that drive them (src/server.py).                                        *)
(*                                                                         *)
(* The persisted corpus is the Chroma collection (an append-only list of   *)
(* chunks, one chunk per indexed document, chunks[i] being the file chunk  *)
(* i was cut from) plus the storage directory written by persist_index.    *)
(* The external collaborators (embedding model, store, BM25 builder,       *)
(* reranker, LLM) are inputs: the rankings they return and the exceptions  *)
(* they raise are chosen nondeterministically.                             *)
(***************************************************************************)
EXTENDS Integers, Sequences, FiniteSets, TLC

(***************************************************************************)
(* Bounds of the model.                                                    *)
(***************************************************************************)
MaxTopK == 2
MaxRefreshes == 2
MaxCorpus == 3
MaxStr == 5
MaxDepth == 2
MaxFiles == 2
MaxText == 5
MaxDecls == 2
MaxLength == 9
MaxMembers == 2
MaxAdvertised == 4
MaxCeiling == 3
MaxDivisor == 2

(***************************************************************************)
(* Program constants.  config.py is not among the sources: the values of   *)
(* the multipliers are scaled to the model.                                *)
(***************************************************************************)
VECTOR_MULTIPLIER == 2
BM25_MULTIPLIER == 3
RERANK_TOP_N_RATIO == 1
RRF_K == 60

INDEX_MISSING_MSG == "Index does not exist. Please run 'refresh_index' first."

(***************************************************************************)
(* A response text is the sequence of the code points of the Python str.   *)
(* LLM_MARKER is the literal of search_engine.py line 314, 70 code points: *)
(* a warning sign that was saved in the wrong encoding (U+201A U+00F6      *)
(* U+2020 U+00D4 U+220F U+00E8), a space, and then the 63 characters       *)
(* "LLM not configured or failed. Showing retrieved documents only.".      *)
(* NO_TEXT is the empty str of a failed search and ANSWER stands for the   *)
(* text the query engine synthesised, here the word "answer".              *)
(***************************************************************************)
LLM_MARKER ==
   << 8218, 246, 8224, 212, 8719, 232, 32, 76, 76, 77, 32, 110,
      111, 116, 32, 99, 111, 110, 102, 105, 103, 117, 114, 101,
      100, 32, 111, 114, 32, 102, 97, 105, 108, 101, 100, 46,
      32, 83, 104, 111, 119, 105, 110, 103, 32, 114, 101, 116,
      114, 105, 101, 118, 101, 100, 32, 100, 111, 99, 117, 109,
      101, 110, 116, 115, 32, 111, 110, 108, 121, 46 >>

NO_TEXT == << >>

ANSWER == <<97, 110, 115, 119, 101, 114>>

Min(a, b) == IF a < b THEN a ELSE b

Take(s, k) == SubSeq(s, 1, Min(k, Len(s)))

Ids(nodes) == {nodes[i].id : i \in 1..Len(nodes)}

IdSeq(nodes) == [i \in 1..Len(nodes) |-> nodes[i].id]

Pos(s, x) == CHOOSE i \in 1..Len(s) : s[i] = x

Perms(n) == {p \in [1..n -> 1..n] : \A i, j \in 1..n : i # j => p[i] # p[j]}

(***************************************************************************)
(* Scores are fractions <<numerator, denominator>> with a positive         *)
(* denominator, compared by cross multiplication.                          *)
(***************************************************************************)
FracGT(a, b) == a[1] * b[2] > b[1] * a[2]

FracGE(a, b) == a[1] * b[2] >= b[1] * a[2]

FracAdd(a, b) == <<a[1] * b[2] + b[1] * a[2], a[2] * b[2]>>

(***************************************************************************)
(* A retriever returns its candidates best first.  order is the ranking    *)
(* the collaborator gives the chunks for the query; a candidate's score    *)
(* falls with its position.                                                *)
(***************************************************************************)
Ranked(order) ==
    [i \in 1..Len(order) |-> [id |-> order[i], score |-> <<Len(order) + 1 - i, 1>>]]

\* index.as_retriever(similarity_top_k = top_k * VECTOR_MULTIPLIER).retrieve(query)
DenseRetrieve(order, n, top_k) ==
    Take(Ranked(SelectSeq(order, LAMBDA c : c <= n)), top_k * VECTOR_MULTIPLIER)

(***************************************************************************)
(* The BM25 retriever: built from the first n chunks of the collection     *)
(* with similarity_top_k fixed at build time; n = 0 stands for None.       *)
(***************************************************************************)
NoRetriever == [n |-> 0, k |-> 0, epoch |-> 0]

Bm25Retrieve(ret, order) ==
    Take(Ranked(SelectSeq(order, LAMBDA c : c <= ret.n)), ret.k)

(***************************************************************************)
(* The fusion retriever.  search_engine.py only constructs it (lines       *)
(* 201-208: QueryFusionRetriever over [retriever_vector, retriever_bm25],  *)
(* similarity_top_k = top_k * VECTOR_MULTIPLIER, mode "reciprocal_rank");  *)
(* the fusion itself runs inside the library, which is not among the       *)
(* sources.  What follows stands in for it and is written from the         *)
(* specification's words: a candidate scores the sum over the two lists of *)
(* 1/(rank + RRF_K), the candidates are sorted by descending score and cut *)
(* to similarity_top_k.  It takes the two retrievers' copies of a chunk    *)
(* for one candidate and counts ranks from 0, neither of which the sources *)
(* settle.  The search claims use it for the order of a fused list only.   *)
(***************************************************************************)
RrfAccumulate(acc, c, list) ==
    IF c \in Ids(list)
    THEN FracAdd(acc, <<1, (Pos(IdSeq(list), c) - 1) + RRF_K>>)
    ELSE acc

FusedScore(c, dense, sparse) ==
    RrfAccumulate(RrfAccumulate(<<0, 1>>, c, dense), c, sparse)

FusionKeys(dense, sparse) ==
    IdSeq(dense) \o SelectSeq(IdSeq(sparse), LAMBDA c : c \notin Ids(dense))

RECURSIVE InsertByScore(_, _)
InsertByScore(x, s) ==
    IF s = << >> THEN <<x>>
    ELSE IF FracGT(x.score, Head(s).score) THEN <<x>> \o s
    ELSE <<Head(s)>> \o InsertByScore(x, Tail(s))

RECURSIVE SortByScore(_)
SortByScore(s) ==
    IF s = << >> THEN << >>
    ELSE InsertByScore(s[Len(s)], SortByScore(SubSeq(s, 1, Len(s) - 1)))

ReciprocalRankFusion(dense, sparse) ==
    LET keys == FusionKeys(dense, sparse)
    IN  SortByScore([i \in 1..Len(keys) |->
            [id |-> keys[i], score |-> FusedScore(keys[i], dense, sparse)]])

FusionRetrieve(dense, sparse, top_k) ==
    Take(ReciprocalRankFusion(dense, sparse), top_k * VECTOR_MULTIPLIER)

(***************************************************************************)
(* SentenceTransformerRerank(top_n = int(top_k * RERANK_TOP_N_RATIO)):     *)
(* re-scores the candidates, orders them by that score and keeps top_n.    *)
(***************************************************************************)
RerankTopN(top_k) == top_k * RERANK_TOP_N_RATIO

Rerank(nodes, order, top_k) ==
    Take(Ranked(SelectSeq(order, LAMBDA c : c \in Ids(nodes))), RerankTopN(top_k))

(***************************************************************************)
(* HybridSearchEngine                                                      *)
(***************************************************************************)
clear_cache_kept(cache) == cache

clear_cache(cache) == NoRetriever

\* The nodes the BM25 index is built from: the docstore of the loaded index,
\* or, the docstore being empty, every record of the collection.
Bm25Nodes(docstore, n) == IF docstore # 0 THEN docstore ELSE n

\* _build_bm25_retriever without the test of lines 110-113: every call builds
_build_bm25_retriever_always(cache, docstore, n, top_k, raises, epoch) ==
    IF raises
    THEN [ret |-> NoRetriever, cache |-> cache, how |-> "failed"]
    ELSE IF Bm25Nodes(docstore, n) # 0
    THEN LET built == [n |-> Bm25Nodes(docstore, n),
                       k |-> top_k * BM25_MULTIPLIER,
                       epoch |-> epoch]
         IN  [ret |-> built, cache |-> built, how |-> "built"]
    ELSE [ret |-> NoRetriever, cache |-> cache, how |-> "nonodes"]

_build_bm25_retriever(cache, docstore, n, top_k, raises, epoch) ==
    IF cache.n # 0
    THEN [ret |-> cache, cache |-> cache, how |-> "cached"]
    ELSE IF raises
    THEN [ret |-> NoRetriever, cache |-> cache, how |-> "failed"]
    ELSE IF Bm25Nodes(docstore, n) # 0
    THEN LET built == [n |-> Bm25Nodes(docstore, n),
                       k |-> top_k * BM25_MULTIPLIER,
                       epoch |-> epoch]
         IN  [ret |-> built, cache |-> built, how |-> "built"]
    ELSE [ret |-> NoRetriever, cache |-> cache, how |-> "nonodes"]

_create_fusion_retriever_unchecked(retriever_bm25, raises) ==
    IF raises THEN "vector" ELSE "fusion"

_create_fusion_retriever(retriever_bm25, raises) ==
    IF retriever_bm25.n = 0 THEN "vector"
    ELSE IF raises THEN "vector"
    ELSE "fusion"

_create_reranker(raises) == ~raises

SearchResult(response_text, source_nodes, success, error) ==
    [response_text |-> response_text, source_nodes |-> source_nodes,
     success |-> success, error |-> error]

NoTrace == [sparse |-> "notrun", final |-> "none", reranker |-> FALSE, path |-> "none"]

(***************************************************************************)
(* search(query, top_k).  st is the persisted state the call reads, cache  *)
(* the engine's _bm25_retriever, in the call's inputs: top_k, the rankings *)
(* the collaborators return for the query, and which calls raise.          *)
(* The value is the SearchResult, the cache after the call and a trace of  *)
(* the stages that ran.                                                    *)
(***************************************************************************)
search(st, cache, in, epoch) ==
    LET bm == _build_bm25_retriever(cache, st.docstore, st.n, in.top_k,
                                    in.sparseRaises, epoch)
        final == _create_fusion_retriever(bm.ret, in.fusionRaises)
        reranker == _create_reranker(in.rerankerRaises)
        dense == DenseRetrieve(in.dense, st.n, in.top_k)
        sparse == Bm25Retrieve(bm.ret, in.sparse)
        retrieved == IF final = "fusion"
                     THEN FusionRetrieve(dense, sparse, in.top_k)
                     ELSE dense
        engineNodes == IF reranker THEN Rerank(retrieved, in.rerank, in.top_k)
                       ELSE retrieved
        engineRaises == \/ in.engine \in {"retrieve", "synth"}
                        \/ in.engine = "rerank" /\ reranker
        fallbackNodes == IF reranker /\ dense # << >>
                         THEN Rerank(dense, in.rerank, in.top_k)
                         ELSE dense
        fallbackRaises == \/ in.fallback = "retrieve"
                          \/ in.fallback = "rerank" /\ reranker /\ dense # << >>
        trace == [sparse |-> bm.how, final |-> final, reranker |-> reranker,
                  path |-> "engine"]
    IN  IF ~st.exists
        THEN IF in.signal = "ValueError"
             THEN [result |-> SearchResult(NO_TEXT, << >>, FALSE, INDEX_MISSING_MSG),
                   cache |-> cache, trace |-> NoTrace]
             ELSE [result |-> SearchResult(NO_TEXT, << >>, FALSE, "store: collection not found"),
                   cache |-> cache, trace |-> NoTrace]
        ELSE IF st.storage = 0 \/ in.loadFails
        THEN [result |-> SearchResult(NO_TEXT, << >>, FALSE, "load_index_from_storage failed"),
              cache |-> cache, trace |-> NoTrace]
        ELSE IF ~engineRaises
        THEN [result |-> SearchResult(ANSWER, engineNodes, TRUE, "none"),
              cache |-> bm.cache, trace |-> trace]
        ELSE IF fallbackRaises
        THEN [result |-> SearchResult(NO_TEXT, << >>, FALSE, "fallback " \o in.fallback \o " failed"),
              cache |-> bm.cache, trace |-> [trace EXCEPT !.path = "fallback"]]
        ELSE [result |-> SearchResult(LLM_MARKER, fallbackNodes, TRUE, "none"),
              cache |-> bm.cache, trace |-> [trace EXCEPT !.path = "fallback"]]

(***************************************************************************)
(* The source tree the refresh scans.  A root is named by the string the   *)
(* caller gave; RootPath is the path it resolves to.  Roots r1, r1/sub,    *)
(* r2, r3 and r4 exist, nx does not; r1/sub lies under r1.  A file is      *)
(* named by a number; ResolvedPath is the path its scanned path resolves   *)
(* to (file 5 is a symbolic link in r4 to a file outside every root) and   *)
(* FileText is its content.                                                *)
(***************************************************************************)
RootLists ==
    {<< >>, <<"r1">>, <<"r3">>, <<"nx">>, <<"r1", "r2">>, <<"nx", "r2">>, <<"r1", "r1">>}

RootPath(root) ==
    CASE root = "r1" -> <<"w", "r1">>
      [] root = "r1/sub" -> <<"w", "r1", "sub">>
      [] root = "r2" -> <<"w", "r2">>
      [] root = "r3" -> <<"w", "r3">>
      [] root = "r4" -> <<"w", "r4">>
      [] OTHER -> <<"w", "nx">>

RootExists(root) == root \in {"r1", "r1/sub", "r2", "r3", "r4"}

\* os.walk lists the files of a directory before those of its subdirectories.
TreeFiles(root) ==
    CASE root = "r1" -> <<2, 1>>
      [] root = "r1/sub" -> <<1>>
      [] root = "r2" -> <<3>>
      [] root = "r3" -> <<4>>
      [] root = "r4" -> <<5>>
      [] OTHER -> << >>

ResolvedPath(file) ==
    CASE file = 1 -> <<"w", "r1", "sub", "A.cs">>
      [] file = 2 -> <<"w", "r1", "B.cs">>
      [] file = 3 -> <<"w", "r2", "C.cs">>
      [] file = 4 -> <<"w", "r3", "D.cs">>
      [] OTHER -> <<"w", "ext", "E.cs">>

FileText(file) ==
    CASE file = 1 -> <<"c", "o", "d", "e">>
      [] file = 2 -> <<"g", "n", "c">>
      [] file = 3 -> <<"c", "o", "g", "n">>
      [] file = 4 -> <<"c", "g", "n">>
      [] OTHER -> <<"c">>

\* config.py is not among the sources: one marker, and a header of three
\* characters, scaled to the texts of the model.
GENERATED_MARKERS == {<<"g", "n">>}
HEADER_CHECK_CHARS == 3

\* marker in header
Contains(text, marker) ==
    \E i \in 0..(Len(text) - Len(marker)) :
        \A j \in 1..Len(marker) : text[i + j] = marker[j]

\* FileFilterer.is_header_generated, reading the whole text
is_header_generated_whole(text) ==
    \E marker \in GENERATED_MARKERS : Contains(text, marker)

\* FileFilterer.is_header_generated
is_header_generated(text) ==
    LET header == Take(text, HEADER_CHECK_CHARS)
    IN  \E marker \in GENERATED_MARKERS : Contains(header, marker)

\* FileFilterer.scan_files
scan_files(root) == IF ~RootExists(root) THEN << >> ELSE TreeFiles(root)

\* FileFilterer.filter_documents_by_content
filter_documents_by_content(documents) ==
    SelectSeq(documents, LAMBDA d : ~is_header_generated(FileText(d)))

(***************************************************************************)
(* FileFilterer.scan_files on a directory tree.  A tree is the set of its  *)
(* files, each with the directories that lead to it from the root and its   *)
(* name; a name is a stem followed by the pieces of its ending.  A path is  *)
(* the sequence of its parts, the name last.  config.py is not among the    *)
(* sources: one excluded directory name and one generated suffix.           *)
(***************************************************************************)
EXCLUDED_DIRS == {"obj"}
GENERATED_SUFFIXES == {<<"_Generated", ".cs">>}

\* the directory names and the file names of the trees
DirNames == {"obj", "src"}
FileNames == { <<"A", ".cs">>, <<"A", "_Generated", ".cs">>, <<"A", ".txt">> }

\* The order in which os.walk lists the entries of a directory is the one
\* os.scandir gives, which the system does not specify: a listing is one
\* order of the directory names and one of the file names.
Listings(S) == {o \in [1..Cardinality(S) -> S] : \A i, j \in DOMAIN o : i # j => o[i] # o[j]}

\* str.endswith
endswith(name, suffix) ==
    /\ Len(suffix) <= Len(name)
    /\ SubSeq(name, Len(name) - Len(suffix) + 1, Len(name)) = suffix

\* FileFilterer.is_generated_file_fast
is_generated_file_fast(file_path) ==
    \/ \E suffix \in GENERATED_SUFFIXES : endswith(file_path[Len(file_path)], suffix)
    \/ \E excluded_dir \in EXCLUDED_DIRS :
          \E i \in 1..Len(file_path) : file_path[i] = excluded_dir

\* the files and the subdirectories os.walk lists for a directory
FilesIn(dir, tree, listing) ==
    SelectSeq(listing.files, LAMBDA n : [dir |-> dir, name |-> n] \in tree)

SubDirs(dir, tree, listing) ==
    SelectSeq(listing.dirs, LAMBDA d :
        \E f \in tree : Len(f.dir) > Len(dir) /\ SubSeq(f.dir, 1, Len(dir) + 1) = Append(dir, d))

\* os.walk descending into every subdirectory
RECURSIVE os_walk_unpruned(_, _, _)
os_walk_unpruned(dir, tree, listing) ==
    LET dirs == SubDirs(dir, tree, listing)
        Each[k \in 0..Len(dirs)] ==
            IF k = 0 THEN << >>
            ELSE Each[k - 1] \o os_walk_unpruned(Append(dir, dirs[k]), tree, listing)
    IN  <<[root |-> dir, files |-> FilesIn(dir, tree, listing)]>> \o Each[Len(dirs)]

\* os.walk with dirs[:] = [d for d in dirs if d not in self.excluded_dirs]
RECURSIVE os_walk(_, _, _)
os_walk(dir, tree, listing) ==
    LET dirs == SelectSeq(SubDirs(dir, tree, listing), LAMBDA d : d \notin EXCLUDED_DIRS)
        Each[k \in 0..Len(dirs)] ==
            IF k = 0 THEN << >>
            ELSE Each[k - 1] \o os_walk(Append(dir, dirs[k]), tree, listing)
    IN  <<[root |-> dir, files |-> FilesIn(dir, tree, listing)]>> \o Each[Len(dirs)]

\* the files scan_files keeps of one directory of the walk
KeptFiles(repo_path, entry) ==
    LET Full(n) == (repo_path \o entry.root) \o <<n>>
        named == SelectSeq(entry.files, LAMBDA n : endswith(n, <<".cs">>))
        kept == SelectSeq(named, LAMBDA n : ~is_generated_file_fast(Full(n)))
    IN  [i \in 1..Len(kept) |-> Full(kept[i])]

\* FileFilterer.scan_files, with the directories the walk listed
scan_tree(repo_path, exists, tree, listing) ==
    IF ~exists THEN [walked |-> << >>, all_files |-> << >>]
    ELSE LET walk == os_walk(<< >>, tree, listing)
             All[k \in 0..Len(walk)] ==
                 IF k = 0 THEN << >> ELSE All[k - 1] \o KeptFiles(repo_path, walk[k])
         IN  [walked |-> [k \in 1..Len(walk) |-> walk[k].root], all_files |-> All[Len(walk)]]

(***************************************************************************)
(* MetadataExtractor.extract_methods.  The content is a sequence of        *)
(* tokens separated by white space; a word is a token the classes \w and   *)
(* [\w<>\[\]] of the pattern match.  The pattern                           *)
(*   public\s+(?:static\s+|virtual\s+|override\s+|async\s+)?              *)
(*   [\w<>\[\]]+\s+([\w]+)\s*\(                                           *)
(* is not anchored at a word boundary: it matches from any token that ends *)
(* with "public".                                                          *)
(***************************************************************************)
PatternModifiers == {"static", "virtual", "override", "async"}

IsWord(tok) == tok \notin {"(", ")", ";", "{", "}"}

EndsWithPublic(tok) == tok \in {"public", "Republic"}

NoMatch == [len |-> 0, name |-> ""]

\* the match of the pattern that starts at token i, the optional modifier
\* tried first
MatchAt(toks, i) ==
    IF ~EndsWithPublic(toks[i]) THEN NoMatch
    ELSE IF /\ i + 4 <= Len(toks)
            /\ toks[i + 1] \in PatternModifiers
            /\ IsWord(toks[i + 2]) /\ IsWord(toks[i + 3])
            /\ toks[i + 4] = "("
    THEN [len |-> 5, name |-> toks[i + 3]]
    ELSE IF /\ i + 3 <= Len(toks)
            /\ IsWord(toks[i + 1]) /\ IsWord(toks[i + 2])
            /\ toks[i + 3] = "("
    THEN [len |-> 4, name |-> toks[i + 2]]
    ELSE NoMatch

\* re.findall: the matches from left to right, none overlapping another
RECURSIVE findall(_, _)
findall(toks, i) ==
    IF i > Len(toks) THEN << >>
    ELSE IF MatchAt(toks, i).len = 0 THEN findall(toks, i + 1)
    ELSE <<MatchAt(toks, i).name>> \o findall(toks, i + MatchAt(toks, i).len)

\* list(dict.fromkeys(methods))
RECURSIVE fromkeys(_)
fromkeys(methods) ==
    IF methods = << >> THEN << >>
    ELSE LET init == fromkeys(SubSeq(methods, 1, Len(methods) - 1))
             last == methods[Len(methods)]
         IN  IF \E k \in 1..Len(init) : init[k] = last THEN init ELSE Append(init, last)

\* extract_methods returning every match
extract_methods_all(content) == findall(content, 1)

\* MetadataExtractor.extract_methods
extract_methods(content) == fromkeys(findall(content, 1))

(***************************************************************************)
(* MetadataExtractor.extract_all.  The lists are joined into strings of    *)
(* characters; Spell gives the characters of a token.  No token of the     *)
(* texts of the model ends with a keyword without being that keyword.      *)
(***************************************************************************)
\* config.py is not among the sources: a default scaled to the model.
MAX_METADATA_LENGTH == 6

TypeKeywords == {"class", "interface", "struct", "enum", "record"}

Spell(tok) ==
    CASE tok = "Foo" -> <<"F", "o", "o">>
      [] tok = "Bar" -> <<"B", "a", "r">>
      [] tok = "N" -> <<"N">>
      [] tok = "enum" -> <<"e", "n", "u", "m">>
      [] tok = "class" -> <<"c", "l", "a", "s", "s">>
      [] OTHER -> <<"?">>

\* MetadataExtractor.__init__: max_length or MAX_METADATA_LENGTH, 0 standing
\* for None as well
MetadataExtractor(max_length) ==
    IF max_length = 0 THEN MAX_METADATA_LENGTH ELSE max_length

\* MetadataExtractor.extract_namespace: the first match, "" standing for None
RECURSIVE extract_namespace(_, _)
extract_namespace(toks, i) ==
    IF i + 1 > Len(toks) THEN ""
    ELSE IF toks[i] = "namespace" /\ IsWord(toks[i + 1]) THEN toks[i + 1]
    ELSE extract_namespace(toks, i + 1)

\* MetadataExtractor.extract_types: "type:Name" for every match, from left to
\* right, none overlapping another
RECURSIVE extract_types(_, _)
extract_types(toks, i) ==
    IF i + 1 > Len(toks) THEN << >>
    ELSE IF toks[i] \in TypeKeywords /\ IsWord(toks[i + 1])
    THEN <<(Spell(toks[i]) \o <<":">>) \o Spell(toks[i + 1])>> \o extract_types(toks, i + 2)
    ELSE extract_types(toks, i + 1)

\* ", ".join(items)
RECURSIVE join(_)
join(items) ==
    IF items = << >> THEN << >>
    ELSE IF Len(items) = 1 THEN items[1]
    ELSE (items[1] \o <<",", " ">>) \o join(Tail(items))

\* text[:n]
SliceTo(text, n) ==
    IF n >= 0 THEN Take(text, n)
    ELSE IF Len(text) + n > 0 THEN Take(text, Len(text) + n)
    ELSE << >>

\* MetadataExtractor._truncate_if_needed
_truncate_if_needed(max_length, text) ==
    IF Len(text) > max_length
    THEN SliceTo(text, max_length - 3) \o <<".", ".", ".">>
    ELSE text

\* MetadataExtractor.extract_all: the mapping, a key present only when its
\* extraction found something
extract_all(max_length, content) ==
    LET namespace == extract_namespace(content, 1)
        types == extract_types(content, 1)
        methods == extract_methods(content)
        keys == (IF namespace # "" THEN {"namespace"} ELSE {})
                \cup (IF types # << >> THEN {"defined_types"} ELSE {})
                \cup (IF methods # << >> THEN {"methods"} ELSE {})
    IN  [key \in keys |->
            CASE key = "namespace" -> Spell(namespace)
              [] key = "defined_types" -> _truncate_if_needed(max_length, join(types))
              [] OTHER -> _truncate_if_needed(max_length,
                              join([k \in 1..Len(methods) |-> Spell(methods[k])]))]

(***************************************************************************)
(* IndexManager                                                            *)
(***************************************************************************)
MAX_BATCH_SIZE == 2
BATCH_SIZE_DIVISOR == 2
DEFAULT_BATCH_SIZE == 1
StoreMaxBatch == 2

\* The values config.py gives the server.
Config ==
    [MAX_BATCH_SIZE |-> MAX_BATCH_SIZE, BATCH_SIZE_DIVISOR |-> BATCH_SIZE_DIVISOR,
     DEFAULT_BATCH_SIZE |-> DEFAULT_BATCH_SIZE]

\* The max_batch_size attribute of the store client: absent, a number, or
\* unusable (reading it raises, or its value is not a number).
Advertises(n) == [attr |-> "number", max_batch_size |-> n]

NoAttribute == [attr |-> "absent", max_batch_size |-> 0]

Unusable == [attr |-> "unusable", max_batch_size |-> 0]

\* IndexManager._calculate_batch_size: the except branch is taken when
\* reading the attribute raises, when its value is not a number, and when
\* the divisor is 0
_calculate_batch_size(config, chroma_client) ==
    IF chroma_client.attr = "unusable" \/ config.BATCH_SIZE_DIVISOR = 0
    THEN config.DEFAULT_BATCH_SIZE
    ELSE LET max_batch == IF chroma_client.attr = "absent" THEN config.MAX_BATCH_SIZE
                          ELSE chroma_client.max_batch_size
             safe_batch == Min(config.MAX_BATCH_SIZE,
                               max_batch \div config.BATCH_SIZE_DIVISOR)
         IN  safe_batch

batch_size == _calculate_batch_size(Config, Advertises(StoreMaxBatch))

(***************************************************************************)
(* refresh_index, lines 281-290: the parsing of repo_paths.  A string is   *)
(* a sequence of characters.                                               *)
(***************************************************************************)
In(c, str) == \E i \in 1..Len(str) : str[i] = c

\* the characters str.strip() removes
IsSpace(c) == c \in {" ", "\n"}

RECURSIVE lstrip(_)
lstrip(str) == IF str # << >> /\ IsSpace(Head(str)) THEN lstrip(Tail(str)) ELSE str

RECURSIVE rstrip(_)
rstrip(str) ==
    IF str # << >> /\ IsSpace(str[Len(str)]) THEN rstrip(SubSeq(str, 1, Len(str) - 1))
    ELSE str

strip(str) == rstrip(lstrip(str))

\* str.split(sep)
RECURSIVE split(_, _)
split(str, sep) ==
    IF ~In(sep, str) THEN <<str>>
    ELSE LET i == CHOOSE i \in 1..Len(str) :
                      str[i] = sep /\ \A j \in 1..(i - 1) : str[j] # sep
         IN  <<SubSeq(str, 1, i - 1)>> \o split(SubSeq(str, i + 1, Len(str)), sep)

\* [p.strip() for p in pieces if p.strip()]
StripKeep(pieces) ==
    SelectSeq([i \in 1..Len(pieces) |-> strip(pieces[i])], LAMBDA q : q # << >>)

\* the parsing with the two tests in the other order: a comma splits even
\* when the string holds a newline
parse_paths_comma_first(repo_paths) ==
    LET paths_list ==
            IF In(",", repo_paths) THEN StripKeep(split(repo_paths, ","))
            ELSE IF In("\n", repo_paths) THEN StripKeep(split(repo_paths, "\n"))
            ELSE <<strip(repo_paths)>>
    IN  SelectSeq(paths_list, LAMBDA q : q # << >>)

\* refresh_index, lines 281-290: paths_list
parse_paths(repo_paths) ==
    LET paths_list ==
            IF In("\n", repo_paths) THEN StripKeep(split(repo_paths, "\n"))
            ELSE IF In(",", repo_paths) THEN StripKeep(split(repo_paths, ","))
            ELSE <<strip(repo_paths)>>
    IN  SelectSeq(paths_list, LAMBDA q : q # << >>)

IsPrefix(p, q) == Len(p) <= Len(q) /\ SubSeq(q, 1, Len(p)) = p

\* filter_and_add_metadata, lines 178-187, without the break: the last root
\* the file lies under wins
RECURSIVE source_repo_last(_, _)
source_repo_last(file, paths_list) ==
    IF paths_list = << >> THEN "unknown"
    ELSE LET rest == source_repo_last(file, Tail(paths_list))
             repo_path_resolved == RootPath(Head(paths_list))
         IN  IF rest # "unknown" THEN rest
             ELSE IF IsPrefix(repo_path_resolved, ResolvedPath(file))
             THEN repo_path_resolved[Len(repo_path_resolved)]
             ELSE "unknown"

\* filter_and_add_metadata, lines 178-187
RECURSIVE source_repo(_, _)
source_repo(file, paths_list) ==
    IF paths_list = << >> THEN "unknown"
    ELSE LET repo_path_resolved == RootPath(Head(paths_list))
         IN  IF IsPrefix(repo_path_resolved, ResolvedPath(file))
             THEN repo_path_resolved[Len(repo_path_resolved)]
             ELSE source_repo(file, Tail(paths_list))

NO_DOCUMENTS_MSG == "No documents remained after filtering. Check path and filter logic."

\* filter_and_add_metadata without the check of lines 170-171
filter_and_add_metadata_unchecked(documents, paths_list, statRaises) ==
    LET filtered_docs == filter_documents_by_content(documents)
    IN  IF statRaises /\ filtered_docs # << >>
        THEN [docs |-> << >>, repos |-> << >>, error |-> "stat failed"]
        ELSE [docs |-> filtered_docs,
              repos |-> [i \in 1..Len(filtered_docs) |->
                            source_repo(filtered_docs[i], paths_list)],
              error |-> ""]

\* IndexManager.filter_and_add_metadata: the documents left, their
\* source_repo tags, and the message of the exception raised, if any
filter_and_add_metadata(documents, paths_list, statRaises) ==
    LET filtered_docs == filter_documents_by_content(documents)
    IN  IF filtered_docs = << >>
        THEN [docs |-> << >>, repos |-> << >>, error |-> NO_DOCUMENTS_MSG]
        ELSE IF statRaises
        THEN [docs |-> << >>, repos |-> << >>, error |-> "stat failed"]
        ELSE [docs |-> filtered_docs,
              repos |-> [i \in 1..Len(filtered_docs) |->
                            source_repo(filtered_docs[i], paths_list)],
              error |-> ""]

\* refresh_index, lines 301-315, giving up at the first root that does not
\* exist
RECURSIVE ScanAllAbort(_)
ScanAllAbort(paths) ==
    IF paths = << >> \/ ~RootExists(Head(paths)) THEN << >>
    ELSE scan_files(Head(paths)) \o ScanAllAbort(Tail(paths))

\* refresh_index, lines 298-315: all_file_paths
RECURSIVE ScanAll(_)
ScanAll(paths) ==
    IF paths = << >> THEN << >> ELSE scan_files(Head(paths)) \o ScanAll(Tail(paths))

PathStats(paths) ==
    [r \in {paths[i] : i \in 1..Len(paths)} |-> Len(scan_files(r))]

FailureResultNoClock(elapsed, error) ==
    [success |-> FALSE, elapsed_time |-> 0, error |-> error]

FailureResult(elapsed, error) ==
    [success |-> FALSE, elapsed_time |-> elapsed, error |-> error]

\* the result with indexed_files counting the documents loaded
SuccessResultLoaded(elapsed, ctx) ==
    [success |-> TRUE, elapsed_time |-> elapsed, total_files |-> ctx.total,
     indexed_files |-> Len(ctx.docs), excluded_files |-> ctx.excluded,
     path_stats |-> PathStats(ctx.paths),
     num_repos |-> Cardinality({r \in DOMAIN PathStats(ctx.paths) : PathStats(ctx.paths)[r] > 0})]

\* the result with indexed_files counting the records of the collection
SuccessResultCount(elapsed, ctx) ==
    [success |-> TRUE, elapsed_time |-> elapsed, total_files |-> ctx.total,
     indexed_files |-> Len(ctx.before[2]) + ctx.indexed, excluded_files |-> ctx.excluded,
     path_stats |-> PathStats(ctx.paths),
     num_repos |-> Cardinality({r \in DOMAIN PathStats(ctx.paths) : PathStats(ctx.paths)[r] > 0})]

SuccessResult(elapsed, ctx) ==
    [success |-> TRUE, elapsed_time |-> elapsed, total_files |-> ctx.total,
     indexed_files |-> ctx.indexed, excluded_files |-> ctx.excluded,
     path_stats |-> PathStats(ctx.paths),
     num_repos |-> Cardinality({r \in DOMAIN PathStats(ctx.paths) : PathStats(ctx.paths)[r] > 0})]

StepOrder == <<"Scanning", "Loading", "Filtering", "Embedding", "Persisting">>

VARIABLES
    collExists,     \* the Chroma collection exists
    chunks,         \* the records of the collection, in insertion order
    storageGen,     \* the refresh whose index persist_index wrote last, 0: none
    bm25,           \* HybridSearchEngine._bm25_retriever
    phase,          \* where the running refresh is
    rctx,           \* the locals of the running refresh
    now,            \* the clock, read from the arrival of the tool call
    refreshResult,  \* the dictionary the last refresh returned
    refreshSeq,     \* refreshes started
    epoch,          \* refreshes that have returned
    lastGood,       \* the persisted corpus as the last successful refresh left it
    searchIn,       \* the inputs of the search call
    searchOut,      \* the result of the last search call since the last refresh
                    \* started, with its trace
    callIn,         \* the argument of the pure function under study
    callOut,        \* what it returned
    callers         \* the locals of the search calls in progress, by caller

vars == <<collExists, chunks, storageGen, bm25, phase, rctx, now, refreshResult,
          refreshSeq, epoch, lastGood, searchIn, searchOut,
          callIn, callOut, callers>>

persisted == <<collExists, chunks, storageGen>>

pureVars == <<callIn, callOut, callers>>

NoCtx ==
    [paths |-> << >>, files |-> << >>, docs |-> << >>, filtered |-> << >>,
     start |-> 0, total |-> 0, indexed |-> 0, excluded |-> 0, steps |-> << >>,
     before |-> <<FALSE, << >>, 0>>, hadCache |-> FALSE, repos |-> << >>,
     created |-> FALSE, written |-> FALSE,
     prev |-> [paths |-> << >>, indexed |-> 0, done |-> FALSE]]

NoResult == [success |-> FALSE, elapsed_time |-> 0, error |-> "no refresh yet"]

NoInput ==
    [top_k |-> 1, signal |-> "ValueError", loadFails |-> FALSE, sparseRaises |-> FALSE,
     fusionRaises |-> FALSE, rerankerRaises |-> FALSE, engine |-> "ok",
     fallback |-> "ok", dense |-> << >>, sparse |-> << >>, rerank |-> << >>]

NoSearch ==
    [called |-> FALSE, result |-> SearchResult(NO_TEXT, << >>, FALSE, "none"), trace |-> NoTrace,
     ret |-> NoRetriever, at |-> 0, corpus |-> 0, cacheBefore |-> NoRetriever]

\* The callers of search_repository that may run at the same time.
Callers == {"a", "b"}

\* The locals of a search call as far as _build_bm25_retriever goes: where
\* the call is, its top_k, the retriever it is constructing (obj, complete
\* once from_defaults has finished, published once it is assigned to
\* _bm25_retriever), the retriever the method returned and how; during is
\* the refresh that was running when the call started, 0 for none, and
\* readPartial tells that the cached retriever it read was not complete.
NoCall ==
    [pc |-> "idle", top_k |-> 1, obj |-> NoRetriever, complete |-> FALSE,
     published |-> FALSE, ret |-> NoRetriever, how |-> "notrun", during |-> 0,
     readPartial |-> FALSE]

NoCallers == [c \in Callers |-> NoCall]

Idle == phase \in {"Idle", "Done", "Failed"}

Store == [exists |-> collExists, n |-> Len(chunks), storage |-> storageGen, docstore |-> 0]

(***************************************************************************)
(* The server tool refresh_index up to the first step of the workflow:     *)
(* clear_cache, then IndexManager.refresh_index reads the clock and parses *)
(* the roots.                                                              *)
(***************************************************************************)
Fail(error) ==
    /\ phase' = "Failed"
    /\ now' = now + 1
    /\ refreshResult' = FailureResult(now' - rctx'.start, error)
    /\ epoch' = epoch + 1

BeginRefresh(paths) ==
    /\ bm25' = clear_cache(bm25)
    /\ refreshSeq' = refreshSeq + 1
    /\ rctx' = [NoCtx EXCEPT !.paths = paths, !.start = 0,
                             !.before = persisted, !.hadCache = bm25.n # 0,
                             !.prev = [paths |-> rctx.paths,
                                       indexed |-> IF phase = "Done"
                                                   THEN refreshResult.indexed_files
                                                   ELSE 0,
                                       done |-> phase = "Done"]]
    /\ now' = 1
    /\ UNCHANGED <<collExists, chunks>>
    /\ IF paths = << >>
       THEN /\ phase' = "Failed"
            /\ refreshResult' = FailureResult(now' - rctx'.start, "No valid paths provided")
            /\ epoch' = epoch + 1
       ELSE /\ phase' = "Scanning"
            /\ UNCHANGED <<refreshResult, epoch>>

RefreshStart ==
    /\ Idle
    /\ refreshSeq < MaxRefreshes
    /\ \E paths \in RootLists : BeginRefresh(paths)
    /\ searchOut' = NoSearch
    /\ UNCHANGED <<storageGen, lastGood, searchIn, pureVars>>

Scan ==
    /\ phase = "Scanning"
    /\ rctx' = [rctx EXCEPT !.files = ScanAll(rctx.paths),
                            !.total = Len(ScanAll(rctx.paths)),
                            !.steps = Append(@, "Scanning")]
    /\ IF ScanAll(rctx.paths) = << >>
       THEN Fail("No .cs files found in any of the specified paths after filtering")
       ELSE /\ phase' = "Loading"
            /\ now' = now + 1
            /\ UNCHANGED <<refreshResult, epoch>>
    /\ UNCHANGED <<collExists, chunks, storageGen, bm25, refreshSeq, lastGood,
                   searchIn, searchOut, pureVars>>

Load ==
    /\ phase = "Loading"
    /\ \E raises \in BOOLEAN :
        /\ rctx' = [rctx EXCEPT !.docs = IF raises THEN << >> ELSE rctx.files,
                                !.steps = Append(@, "Loading")]
        /\ IF raises
           THEN Fail("Error loading data")
           ELSE /\ phase' = "Filtering"
                /\ now' = now + 1
                /\ UNCHANGED <<refreshResult, epoch>>
    /\ UNCHANGED <<collExists, chunks, storageGen, bm25, refreshSeq, lastGood,
                   searchIn, searchOut, pureVars>>

Filter ==
    /\ phase = "Filtering"
    /\ \E statRaises \in BOOLEAN :
        LET out == filter_and_add_metadata(rctx.docs, rctx.paths, statRaises)
            indexed_files == Len(out.docs)
        IN  IF out.error # ""
            THEN /\ rctx' = [rctx EXCEPT !.steps = Append(@, "Filtering")]
                 /\ Fail(out.error)
            ELSE /\ rctx' = [rctx EXCEPT
                        !.filtered = out.docs,
                        !.repos = out.repos,
                        !.indexed = indexed_files,
                        !.excluded = rctx.total - indexed_files
                                        + (Len(rctx.docs) - indexed_files),
                        !.steps = Append(@, "Filtering")]
                 /\ phase' = "Embedding"
                 /\ now' = now + 1
                 /\ UNCHANGED <<refreshResult, epoch>>
    /\ UNCHANGED <<collExists, chunks, storageGen, bm25, refreshSeq, lastGood,
                   searchIn, searchOut, pureVars>>

(***************************************************************************)
(* build_index, the Embedding step of the refresh.  Line 219 gets or       *)
(* creates the collection; VectorStoreIndex.from_documents of line 225     *)
(* then embeds the documents and adds them to the collection batch by      *)
(* batch, insert_batch_size = batch_size documents at a time.  Nothing     *)
(* holds a lock meanwhile: the collection is there with no record of this  *)
(* refresh yet, then with the records of the batches added so far, and an  *)
(* exception leaves what the earlier batches added.  rctx.created tells    *)
(* that line 219 has run; the documents added so far are those the corpus  *)
(* has gained since the refresh began.                                     *)
(***************************************************************************)
GetOrCreateCollection ==
    /\ phase = "Embedding"
    /\ ~rctx.created
    /\ \E raises \in BOOLEAN :
        IF raises
        THEN /\ rctx' = [rctx EXCEPT !.steps = Append(@, "Embedding")]
             /\ UNCHANGED collExists
             /\ Fail("get_or_create_collection failed")
        ELSE /\ rctx' = [rctx EXCEPT !.created = TRUE]
             /\ collExists' = TRUE
             /\ UNCHANGED <<phase, now, refreshResult, epoch>>
    /\ UNCHANGED <<chunks, storageGen, bm25, refreshSeq, lastGood, searchIn, searchOut,
                   pureVars>>

\* one batch of from_documents
Embed ==
    /\ phase = "Embedding"
    /\ rctx.created
    /\ LET added == Len(chunks) - Len(rctx.before[2])
           batch == Take(SubSeq(rctx.filtered, added + 1, Len(rctx.filtered)), batch_size)
       IN  \E raises \in BOOLEAN :
            IF raises \/ batch_size = 0
            THEN /\ rctx' = [rctx EXCEPT !.steps = Append(@, "Embedding")]
                 /\ UNCHANGED chunks
                 /\ Fail("embedding failed")
            ELSE /\ chunks' = chunks \o batch
                 /\ IF added + Len(batch) = Len(rctx.filtered)
                    THEN /\ rctx' = [rctx EXCEPT !.steps = Append(@, "Embedding")]
                         /\ phase' = "Persisting"
                         /\ now' = now + 1
                         /\ UNCHANGED <<refreshResult, epoch>>
                    ELSE UNCHANGED <<rctx, phase, now, refreshResult, epoch>>
    /\ UNCHANGED <<collExists, storageGen, bm25, refreshSeq, lastGood, searchIn, searchOut,
                   pureVars>>

(***************************************************************************)
(* The Persisting step and the end of a refresh that succeeded.            *)
(* persist_index writes the storage (line 244); refresh_index then logs,   *)
(* reads the clock (line 337) and returns the result (lines 339-348), and  *)
(* the tool returns it.  Nothing holds a lock meanwhile: between the two   *)
(* the storage of this refresh is written while the refresh still runs.    *)
(* rctx.written tells that line 244 has run; the step is entered in        *)
(* rctx.steps when the refresh leaves it.                                  *)
(***************************************************************************)
Persist ==
    /\ phase = "Persisting"
    /\ ~rctx.written
    /\ \E raises \in BOOLEAN :
        IF raises
        THEN /\ rctx' = [rctx EXCEPT !.steps = Append(@, "Persisting")]
             /\ Fail("persist failed")
             /\ UNCHANGED <<storageGen, lastGood>>
        ELSE /\ rctx' = [rctx EXCEPT !.written = TRUE]
             /\ storageGen' = refreshSeq
             /\ lastGood' = <<collExists, chunks, refreshSeq>>
             /\ UNCHANGED <<phase, now, refreshResult, epoch>>
    /\ UNCHANGED <<collExists, chunks, bm25, refreshSeq, searchIn, searchOut, pureVars>>

\* lines 337-348: the elapsed time is taken and the result returned
RefreshReturn ==
    /\ phase = "Persisting"
    /\ rctx.written
    /\ rctx' = [rctx EXCEPT !.steps = Append(@, "Persisting")]
    /\ phase' = "Done"
    /\ now' = now + 1
    /\ refreshResult' = SuccessResult(now' - rctx.start, rctx)
    /\ epoch' = epoch + 1
    /\ UNCHANGED <<collExists, chunks, storageGen, bm25, refreshSeq, lastGood,
                   searchIn, searchOut, pureVars>>

(***************************************************************************)
(* The server tool search_repository.  The inputs that cannot matter for   *)
(* the state the call finds are left at their defaults.                    *)
(***************************************************************************)
Orders(n) == {[i \in 1..n |-> p[i]] : p \in Perms(n)}

EnginePaths(engines, fallbacks) ==
    {<<e, "ok">> : e \in engines \cap {"ok"}}
    \cup {<<e, f>> : e \in engines \ {"ok"}, f \in fallbacks}

FaultInputs(exists, rankings, ctorFaults, engines, fallbacks) ==
    IF ~exists
    THEN {[NoInput EXCEPT !.top_k = k, !.signal = s] :
             k \in 1..MaxTopK, s \in {"ValueError", "OtherError"}}
    ELSE {[NoInput EXCEPT !.top_k = k, !.loadFails = TRUE] : k \in 1..MaxTopK}
         \cup
         {[top_k |-> k, signal |-> "ValueError", loadFails |-> FALSE, sparseRaises |-> sr,
           fusionRaises |-> fr, rerankerRaises |-> rr, engine |-> ef[1], fallback |-> ef[2],
           dense |-> r[1], sparse |-> r[2], rerank |-> r[3]] :
              k \in 1..MaxTopK, sr \in BOOLEAN, fr \in ctorFaults, rr \in ctorFaults,
              ef \in EnginePaths(engines, fallbacks), r \in rankings}

Identity(n) == [i \in 1..n |-> i]

Reverse(n) == [i \in 1..n |-> n + 1 - i]

SearchRecord(out, cache, at, n) ==
    [called |-> TRUE, result |-> out.result, trace |-> out.trace,
     ret |-> IF out.trace.sparse \in {"cached", "built"} THEN out.cache ELSE NoRetriever,
     at |-> at, corpus |-> n, cacheBefore |-> cache]

SearchRepository ==
    /\ Idle
    /\ \E in \in FaultInputs(collExists,
                             {<<Identity(Len(chunks)), Reverse(Len(chunks)), Reverse(Len(chunks))>>},
                             {FALSE}, {"ok", "synth"}, {"ok", "retrieve"}) :
        LET out == search(Store, bm25, in, epoch)
        IN  /\ bm25' = out.cache
            /\ searchOut' = SearchRecord(out, bm25, epoch, Len(chunks))
    /\ UNCHANGED <<collExists, chunks, storageGen, phase, rctx, now, refreshResult,
                   refreshSeq, epoch, lastGood, searchIn, pureVars>>

Init ==
    /\ collExists = FALSE
    /\ chunks = << >>
    /\ storageGen = 0
    /\ bm25 = NoRetriever
    /\ phase = "Idle"
    /\ rctx = NoCtx
    /\ now = 0
    /\ refreshResult = NoResult
    /\ refreshSeq = 0
    /\ epoch = 0
    /\ lastGood = <<FALSE, << >>, 0>>
    /\ searchIn = NoInput
    /\ searchOut = NoSearch
    /\ callIn = << >>
    /\ callOut = << >>
    /\ callers = NoCallers

Next ==
    \/ RefreshStart
    \/ Scan
    \/ Load
    \/ Filter
    \/ GetOrCreateCollection
    \/ Embed
    \/ Persist
    \/ RefreshReturn
    \/ SearchRepository

Spec == Init /\ [][Next]_vars

(***************************************************************************)
(* The refresh workflow on its own, over every list of roots of the tree:  *)
(* overlapping roots in both orders, a missing root before, between and    *)
(* after existing ones, and a root whose only file resolves outside it.    *)
(***************************************************************************)
AllRootLists ==
    RootLists \cup
    {<<"r1/sub", "r1">>, <<"r1", "r1/sub">>, <<"r2", "nx">>, <<"r1", "nx", "r2">>,
     <<"r4">>, <<"r4", "r2">>, <<"r3", "r2">>, <<"r3", "nx">>}

RefreshAny ==
    /\ Idle
    /\ refreshSeq < MaxRefreshes
    /\ \E paths \in AllRootLists : BeginRefresh(paths)
    /\ searchOut' = NoSearch
    /\ UNCHANGED <<storageGen, lastGood, searchIn, pureVars>>

NextRefresh ==
    \/ RefreshAny
    \/ Scan
    \/ Load
    \/ Filter
    \/ GetOrCreateCollection
    \/ Embed
    \/ Persist
    \/ RefreshReturn

SpecRefresh == Init /\ [][NextRefresh]_vars

(***************************************************************************)
(* The parsing of the roots on its own, over every string of at most       *)
(* MaxStr characters.                                                      *)
(***************************************************************************)
Chars == {"a", "b", ",", "\n", " "}

Strings(alphabet, n) == UNION {[1..k -> alphabet] : k \in 0..n}

\* No refresh and no search has run.
Quiescent ==
    /\ collExists = FALSE
    /\ chunks = << >>
    /\ storageGen = 0
    /\ bm25 = NoRetriever
    /\ phase = "Idle"
    /\ rctx = NoCtx
    /\ now = 0
    /\ refreshResult = NoResult
    /\ refreshSeq = 0
    /\ epoch = 0
    /\ lastGood = <<FALSE, << >>, 0>>
    /\ searchIn = NoInput
    /\ searchOut = NoSearch
    /\ callers = NoCallers

serverVars ==
    <<collExists, chunks, storageGen, bm25, phase, rctx, now, refreshResult,
      refreshSeq, epoch, lastGood, searchIn, searchOut, callers>>

InitParse ==
    /\ Quiescent
    /\ callIn \in Strings(Chars, MaxStr)
    /\ callOut = << >>

ParsePaths ==
    /\ callOut = << >>
    /\ callOut' = <<parse_paths(callIn)>>
    /\ UNCHANGED <<serverVars, callIn>>

SpecParse == InitParse /\ [][ParsePaths]_vars

(***************************************************************************)
(* The scan on its own, over every tree of at most MaxFiles files at most  *)
(* MaxDepth directories below the root, for a root outside any excluded    *)
(* directory, a root that is itself named as an excluded directory, and a  *)
(* root below one, under every order in which the system may list the      *)
(* entries of a directory.  In a tree of two files at most one directory   *)
(* holds two entries, so one listing for the walk covers every order.      *)
(***************************************************************************)
FileUniverse ==
    {[dir |-> d, name |-> n] : d \in UNION {[1..k -> DirNames] : k \in 0..MaxDepth},
                               n \in FileNames}

Trees == {{}} \cup {{f[i] : i \in 1..MaxFiles} : f \in [1..MaxFiles -> FileUniverse]}

InitScan ==
    /\ Quiescent
    /\ callIn \in [repo_path : {<<"w">>, <<"obj">>, <<"obj", "w">>}, exists : BOOLEAN, tree : Trees,
                    listing : [dirs : Listings(DirNames), files : Listings(FileNames)]]
    /\ callIn.exists \/ callIn.tree = {}
    /\ callOut = << >>

ScanFiles ==
    /\ callOut = << >>
    /\ callOut' = <<scan_tree(callIn.repo_path, callIn.exists, callIn.tree, callIn.listing)>>
    /\ UNCHANGED <<serverVars, callIn>>

SpecScan == InitScan /\ [][ScanFiles]_vars

(***************************************************************************)
(* The header check on its own, over every pair of texts of at most        *)
(* MaxText characters.                                                     *)
(***************************************************************************)
TextChars == {"g", "n", "c"}

InitHeader ==
    /\ Quiescent
    /\ callIn \in [text : Strings(TextChars, MaxText), other : Strings(TextChars, MaxText)]
    /\ callOut = << >>

CheckHeaders ==
    /\ callOut = << >>
    /\ callOut' = <<[text |-> is_header_generated(callIn.text),
                      other |-> is_header_generated(callIn.other)]>>
    /\ UNCHANGED <<serverVars, callIn>>

SpecHeader == InitHeader /\ [][CheckHeaders]_vars

(***************************************************************************)
(* The method extraction on its own, over every text of at most MaxDecls   *)
(* member declarations: an access modifier or none, up to two further      *)
(* modifiers, a return type, a name, and the rest of a method or a field.  *)
(***************************************************************************)
Declarations ==
    [access : {"public", "private", "internal", "none"},
     mods : {<< >>, <<"static">>, <<"static", "async">>},
     type : {"void", "Republic"},
     name : {"Foo", "Bar"},
     kind : {"method", "field"}]

Render(decl) ==
    (IF decl.access = "none" THEN << >> ELSE <<decl.access>>)
    \o decl.mods \o <<decl.type, decl.name>>
    \o (IF decl.kind = "method" THEN <<"(", ")", ";">> ELSE <<";">>)

RECURSIVE RenderAll(_)
RenderAll(decls) ==
    IF decls = << >> THEN << >> ELSE Render(Head(decls)) \o RenderAll(Tail(decls))

InitExtract ==
    /\ Quiescent
    /\ callIn \in UNION {[1..k -> Declarations] : k \in 0..MaxDecls}
    /\ callOut = << >>

ExtractMethods ==
    /\ callOut = << >>
    /\ callOut' = <<extract_methods(RenderAll(callIn))>>
    /\ UNCHANGED <<serverVars, callIn>>

SpecExtract == InitExtract /\ [][ExtractMethods]_vars

(***************************************************************************)
(* extract_all on its own, over every text of at most MaxMembers members   *)
(* (a namespace, a type or a method) and every maximum length up to        *)
(* MaxLength; 0 stands for an extractor constructed without one.           *)
(***************************************************************************)
Members ==
    {<<"namespace", "N", "{", "}">>}
    \cup {<<kw, n, "{", "}">> : kw \in {"class", "enum"}, n \in {"Foo", "Bar"}}
    \cup {<<a, "void", n, "(", ")", ";">> : a \in {"public", "private"}, n \in {"Foo", "Bar"}}

RECURSIVE Flatten(_)
Flatten(seqs) == IF seqs = << >> THEN << >> ELSE Head(seqs) \o Flatten(Tail(seqs))

InitExtractAll ==
    /\ Quiescent
    /\ callIn \in [max_length : 0..MaxLength,
                   members : UNION {[1..k -> Members] : k \in 0..MaxMembers}]
    /\ callOut = << >>

ExtractAll ==
    /\ callOut = << >>
    /\ callOut' = <<extract_all(MetadataExtractor(callIn.max_length),
                                Flatten(callIn.members))>>
    /\ UNCHANGED <<serverVars, callIn>>

SpecExtractAll == InitExtractAll /\ [][ExtractAll]_vars

(***************************************************************************)
(* _calculate_batch_size on its own, over every store client (no           *)
(* attribute, an unusable one, or a maximum of 1..MaxAdvertised) and every *)
(* configuration: a ceiling and a default of 1..MaxCeiling, a divisor of   *)
(* 1..MaxDivisor.                                                          *)
(***************************************************************************)
Clients == {NoAttribute, Unusable} \cup {Advertises(n) : n \in 1..MaxAdvertised}

Configs ==
    [MAX_BATCH_SIZE : 1..MaxCeiling, BATCH_SIZE_DIVISOR : 1..MaxDivisor,
     DEFAULT_BATCH_SIZE : 1..MaxCeiling]

InitBatch ==
    /\ Quiescent
    /\ callIn \in [config : Configs, chroma_client : Clients]
    /\ callOut = << >>

CalculateBatchSize ==
    /\ callOut = << >>
    /\ callOut' = <<_calculate_batch_size(callIn.config, callIn.chroma_client)>>
    /\ UNCHANGED <<serverVars, callIn>>

SpecBatch == InitBatch /\ [][CalculateBatchSize]_vars

\* The chunks of a persisted corpus of n chunks.
Corpus(n) == [i \in 1..n |-> IF i % 2 = 1 THEN 1 ELSE 3]

(***************************************************************************)
(* The server with its tool calls running at the same time: nothing in     *)
(* server.py, HybridSearchEngine or IndexManager takes a lock, so the      *)
(* steps of one refresh and of the search calls of Callers interleave      *)
(* freely.  A search call is followed through _build_bm25_retriever: the   *)
(* test of the cache, the reading of the nodes, the construction of the    *)
(* retriever inside BM25Retriever.from_defaults, the assignment to         *)
(* _bm25_retriever, and the return statement, which reads the attribute    *)
(* once more: what the method returns is what the attribute holds then.    *)
(* A search that finds no collection or no persisted index returns before  *)
(* it touches the cache and is left out.                                   *)
(***************************************************************************)

\* The assignment of line 139 with its two halves in the other order: the
\* attribute is assigned before the retriever is constructed
AfterStepPublishFirst(step) ==
    CASE step = "allocate" -> "publish"
      [] step = "publish" -> "populate"
      [] OTHER -> "return"

\* The order of lines 139-144: from_defaults constructs the retriever, the
\* finished object is assigned to self._bm25_retriever, the method returns
AfterStep(step) ==
    CASE step = "allocate" -> "populate"
      [] step = "populate" -> "publish"
      [] OTHER -> "return"

\* The retriever in the cache is one whose construction has not finished.
CachePartial ==
    /\ bm25 # NoRetriever
    /\ \E c \in Callers :
          callers[c].published /\ callers[c].obj = bm25 /\ ~callers[c].complete

callerVars ==
    <<collExists, chunks, storageGen, phase, rctx, now, refreshResult, refreshSeq,
      epoch, lastGood, searchIn, searchOut, callIn, callOut>>

RefreshConcurrent ==
    /\ Idle
    /\ refreshSeq < MaxRefreshes
    /\ \E paths \in {<<"r1">>, <<"r1", "r2">>} : BeginRefresh(paths)
    /\ searchOut' = NoSearch
    /\ UNCHANGED <<storageGen, lastGood, searchIn, pureVars>>

\* search, lines 247-276, up to the call of _build_bm25_retriever
StartSearch(c) ==
    /\ callers[c].pc = "idle"
    /\ collExists
    /\ storageGen # 0
    /\ \E top_k \in 1..MaxTopK :
        callers' = [callers EXCEPT ![c] =
                        [@ EXCEPT !.pc = "check", !.top_k = top_k,
                                  !.ret = NoRetriever, !.how = "notrun",
                                  !.during = IF Idle THEN 0 ELSE refreshSeq,
                                  !.readPartial = FALSE]]
    /\ UNCHANGED <<callerVars, bm25>>

\* line 111: if self._bm25_retriever is not None.  The retriever is not
\* taken here: line 113 reads the attribute again.
CheckCache(c) ==
    /\ callers[c].pc = "check"
    /\ callers' = [callers EXCEPT ![c] =
                      IF bm25 # NoRetriever
                      THEN [@ EXCEPT !.pc = "return", !.how = "cached"]
                      ELSE [@ EXCEPT !.pc = "allocate"]]
    /\ UNCHANGED <<callerVars, bm25>>

\* lines 118-138: the nodes are read and from_defaults starts on them
Allocate(c) ==
    /\ callers[c].pc = "allocate"
    /\ \E raises \in BOOLEAN :
        LET out == _build_bm25_retriever(NoRetriever, Store.docstore, Len(chunks),
                                         callers[c].top_k, raises, epoch)
        IN  callers' = [callers EXCEPT ![c] =
                           IF out.how = "built"
                           THEN [@ EXCEPT !.pc = AfterStep("allocate"), !.obj = out.ret,
                                          !.complete = FALSE, !.published = FALSE]
                           ELSE [@ EXCEPT !.pc = "return", !.how = out.how]]
    /\ UNCHANGED <<callerVars, bm25>>

\* lines 139-142, right-hand side: from_defaults finishes
Populate(c) ==
    /\ callers[c].pc = "populate"
    /\ callers' = [callers EXCEPT ![c] =
                      [@ EXCEPT !.pc = AfterStep("populate"), !.complete = TRUE]]
    /\ UNCHANGED <<callerVars, bm25>>

\* line 139: self._bm25_retriever = ...
Publish(c) ==
    /\ callers[c].pc = "publish"
    /\ bm25' = callers[c].obj
    /\ callers' = [callers EXCEPT ![c] =
                      [@ EXCEPT !.pc = AfterStep("publish"), !.published = TRUE,
                                !.how = "built"]]
    /\ UNCHANGED callerVars

\* lines 113 and 144: return self._bm25_retriever, the attribute as it is
\* when the statement runs, be it empty again or another caller's retriever;
\* lines 147 and 151: return None.  The search goes on with the value.
Return(c) ==
    /\ callers[c].pc = "return"
    /\ callers' = [callers EXCEPT ![c] =
                      IF callers[c].how \in {"cached", "built"}
                      THEN [@ EXCEPT !.pc = "idle", !.ret = bm25,
                                     !.readPartial = CachePartial]
                      ELSE [@ EXCEPT !.pc = "idle", !.ret = NoRetriever]]
    /\ UNCHANGED <<callerVars, bm25>>

NextConcurrent ==
    \/ RefreshConcurrent
    \/ Scan
    \/ Load
    \/ Filter
    \/ GetOrCreateCollection
    \/ Embed
    \/ Persist
    \/ RefreshReturn
    \/ \E c \in Callers :
          \/ StartSearch(c)
          \/ CheckCache(c)
          \/ Allocate(c)
          \/ Populate(c)
          \/ Publish(c)
          \/ Return(c)

SpecConcurrent == Init /\ [][NextConcurrent]_vars

(***************************************************************************)
(* The search calls of Callers on one engine with no refresh running: the  *)
(* index of a corpus of 1..MaxCorpus chunks is persisted and the cache of  *)
(* the new engine is empty.                                                *)
(***************************************************************************)
InitCallers ==
    /\ \E n \in 1..MaxCorpus : chunks = Corpus(n)
    /\ collExists = TRUE
    /\ storageGen = 1
    /\ bm25 = NoRetriever
    /\ phase = "Idle"
    /\ rctx = NoCtx
    /\ now = 0
    /\ refreshResult = NoResult
    /\ refreshSeq = 0
    /\ epoch = 0
    /\ lastGood = <<FALSE, << >>, 0>>
    /\ searchIn = NoInput
    /\ searchOut = NoSearch
    /\ callIn = << >>
    /\ callOut = << >>
    /\ callers = NoCallers

SpecCallers ==
    InitCallers /\ [][\E c \in Callers : \/ StartSearch(c)
                                        \/ CheckCache(c)
                                        \/ Allocate(c)
                                        \/ Populate(c)
                                        \/ Publish(c)
                                        \/ Return(c)]_vars

(***************************************************************************)
(* The search pipeline on its own: one search call from every persisted    *)
(* state and cache a sequential run of the server can leave, under every   *)
(* combination of raising collaborators and of rankings.  A collection     *)
(* whose index was persisted holds at least one chunk; one that was only   *)
(* created, or only partly filled, by a failed refresh has no persisted    *)
(* index.  The chunks are numbered in the order the dense retriever ranks  *)
(* them; the sparse and the reranker rankings are arbitrary.               *)
(***************************************************************************)
PersistedStates ==
    {<<FALSE, 0, 0>>, <<TRUE, 0, 0>>, <<TRUE, 1, 0>>} \cup {<<TRUE, n, 1>> : n \in 1..MaxCorpus}

CacheStates(n) ==
    {NoRetriever} \cup
    {[n |-> n, k |-> t * BM25_MULTIPLIER, epoch |-> 0] : t \in 1..MaxTopK, m \in {n} \ {0}}

Rankings(n) == {<<Identity(n), s, r>> : s \in Orders(n), r \in Orders(n)}

InitSearch ==
    /\ \E p \in PersistedStates :
        /\ collExists = p[1]
        /\ chunks = Corpus(p[2])
        /\ storageGen = p[3]
        /\ bm25 \in (IF p[1] /\ p[3] # 0 THEN CacheStates(p[2]) ELSE {NoRetriever})
        /\ searchIn \in FaultInputs(p[1] /\ p[3] # 0, Rankings(p[2]), BOOLEAN,
                                    {"ok", "retrieve", "rerank", "synth"},
                                    {"ok", "retrieve", "rerank"})
    /\ phase = "Idle"
    /\ rctx = NoCtx
    /\ now = 0
    /\ refreshResult = NoResult
    /\ refreshSeq = 0
    /\ epoch = 0
    /\ lastGood = <<FALSE, << >>, 0>>
    /\ searchOut = NoSearch
    /\ callIn = << >>
    /\ callOut = << >>
    /\ callers = NoCallers

SearchCall ==
    /\ ~searchOut.called
    /\ LET out == search(Store, bm25, searchIn, epoch)
       IN  /\ bm25' = out.cache
           /\ searchOut' = SearchRecord(out, bm25, epoch, Len(chunks))
    /\ UNCHANGED <<collExists, chunks, storageGen, phase, rctx, now, refreshResult,
                   refreshSeq, epoch, lastGood, searchIn, pureVars>>

SpecSearch == InitSearch /\ [][SearchCall]_vars

(***************************************************************************)
(* Claims                                                                  *)
(***************************************************************************)
Result == searchOut.result

Trace == searchOut.trace

\* The search got past get_collection and load_index_from_storage.
Loaded == searchOut.called /\ collExists /\ storageGen # 0 /\ ~searchIn.loadFails

DenseList == DenseRetrieve(searchIn.dense, Len(chunks), searchIn.top_k)

SparseList == Bm25Retrieve(searchOut.ret, searchIn.sparse)

FusedList == FusionRetrieve(DenseList, SparseList, searchIn.top_k)

\* C1: a search that runs after a refresh has returned uses no BM25 retriever
\* built before that refresh returned: the retriever it uses was built after
\* the last refresh, from the collection as that refresh left it.
C1_NoStaleRetriever ==
    (searchOut.called /\ searchOut.ret.n # 0) =>
        /\ searchOut.ret.epoch = searchOut.at
        /\ searchOut.ret.n = searchOut.corpus

\* A refresh cleared a populated cache and grew the collection, and the search
\* after it built a new retriever.
C1_Witness ==
    /\ Idle
    /\ rctx.hadCache
    /\ searchOut.called
    /\ searchOut.at = epoch
    /\ Trace.sparse = "built"
    /\ searchOut.ret.n > Len(rctx.before[2])

\* C2: when the collection exists and building the BM25 retriever fails (an
\* exception, or no nodes), the search returns success with the dense-only
\* results, reranked when a reranker was constructed; such a search returns
\* success = false only if the query engine raised and the fallback raised too.
C2_SparseFailureDegrades ==
    (Loaded /\ Trace.sparse \in {"failed", "nonodes"}) =>
        /\ ~Result.success => (searchIn.engine # "ok" /\ searchIn.fallback # "ok")
        /\ Result.success =>
              Result.source_nodes =
                  IF Trace.reranker /\ (Trace.path = "engine" \/ DenseList # << >>)
                  THEN Rerank(DenseList, searchIn.rerank, searchIn.top_k)
                  ELSE DenseList

C2_Witness ==
    /\ Loaded
    /\ Trace.sparse = "failed"
    /\ searchIn.engine = "ok"
    /\ ~Trace.reranker
    /\ Result.success
    /\ Len(Result.source_nodes) >= 2

\* C3: with the collection present and the index loaded, every search returns
\* success = true, whichever retrieval, fusion, rerank or synthesis call
\* raises, the calls of the fallback path included.
C3_StageErrorsNeverFail == Loaded => Result.success

\* C4: with no collection, search returns success = false, no nodes and the
\* "run refresh_index first" error, builds no BM25 retriever and leaves the
\* cache empty, however the store signals the missing collection.
C4_MissingIndexReported ==
    (searchOut.called /\ ~collExists) =>
        /\ ~Result.success
        /\ Result.source_nodes = << >>
        /\ Result.error = INDEX_MISSING_MSG
        /\ Trace.sparse = "notrun"
        /\ bm25 = NoRetriever

\* C5: a reranker that cannot be constructed is skipped, the candidates of the
\* retriever passing through unchanged, and a reranker that raises when it is
\* applied is skipped as well: a search in which no collaborator but the
\* reranker raises returns success = true.
C5_RerankerNeverFails ==
    (Loaded /\ searchIn.engine \in {"ok", "rerank"} /\ searchIn.fallback \in {"ok", "rerank"}) =>
        /\ Result.success
        /\ (~Trace.reranker /\ Trace.path = "engine") =>
              Result.source_nodes = IF Trace.final = "fusion" THEN FusedList ELSE DenseList

\* C6: when the synthesizer raises, search returns success = true, the
\* "no generation" marker as response_text and the retrieved nodes, reranked
\* when a reranker was constructed.
C6_SynthesisFallback ==
    (Loaded /\ searchIn.engine = "synth") =>
        /\ Result.success
        /\ Result.response_text = LLM_MARKER
        /\ Result.source_nodes =
              IF Trace.reranker /\ DenseList # << >>
              THEN Rerank(DenseList, searchIn.rerank, searchIn.top_k)
              ELSE DenseList

\* The score the claim orders candidate c by: the reranker's if one was
\* constructed, else the fused score if both retrievers are there, else the
\* dense similarity.
StageScore(c) ==
    IF Trace.reranker
    THEN <<Len(searchIn.rerank) + 1 - Pos(searchIn.rerank, c), 1>>
    ELSE IF Trace.final = "fusion"
    THEN FusedScore(c, DenseList, SparseList)
    ELSE <<Len(searchIn.dense) + 1 - Pos(searchIn.dense, c), 1>>

\* C7: the nodes of a successful search are in descending order of the score
\* of the last stage that ran, and with both retrievers available they are
\* candidates of the fused list, on the path taken when synthesis fails too.
C7_OrderedByLastStage ==
    (Loaded /\ Result.success /\ searchIn.engine \in {"ok", "synth"}) =>
        /\ \A i, j \in 1..Len(Result.source_nodes) :
              i < j => FracGE(StageScore(Result.source_nodes[i].id),
                              StageScore(Result.source_nodes[j].id))
        /\ Trace.final = "fusion" => Ids(Result.source_nodes) \subseteq Ids(FusedList)

\* C9: after a refresh that returned success = false the chunks of the
\* collection and the storage directory are those of the last successful
\* refresh.
C9_FailedRefreshKeepsCorpus ==
    phase = "Failed" => (chunks = lastGood[2] /\ storageGen = lastGood[3])

\* C10: the steps of a refresh run in the order Scanning, Loading, Filtering,
\* Embedding, Persisting; the running step is the one after those that
\* succeeded; a refresh that is Done ran them all; a refresh that Failed ran
\* no step after the one that failed and returned success = false, the time
\* elapsed and an error; embedding starts only with documents left by the
\* three steps before it.
C10_RefreshStateMachine ==
    /\ Len(rctx.steps) <= Len(StepOrder)
    /\ \A i \in 1..Len(rctx.steps) : rctx.steps[i] = StepOrder[i]
    /\ phase \in {"Idle", "Done", "Failed"} \cup {StepOrder[i] : i \in 1..Len(StepOrder)}
    /\ phase \in {StepOrder[i] : i \in 1..Len(StepOrder)} =>
          phase = StepOrder[Len(rctx.steps) + 1]
    /\ phase \in {"Embedding", "Persisting", "Done"} =>
          (rctx.files # << >> /\ rctx.docs # << >> /\ rctx.filtered # << >>)
    /\ phase = "Done" =>
          /\ rctx.steps = StepOrder
          /\ refreshResult.success
          /\ refreshResult.elapsed_time = now - rctx.start
    /\ phase = "Failed" =>
          /\ ~refreshResult.success
          /\ refreshResult.elapsed_time = now - rctx.start
          /\ refreshResult.elapsed_time = Len(rctx.steps) + 1
          /\ refreshResult.error # ""
    /\ phase \in {"Done", "Failed"} => ~ENABLED (Scan \/ Load \/ Filter \/ GetOrCreateCollection \/ Embed \/ Persist
                                            \/ RefreshReturn)

\* A refresh failed in the loading step, two time units after it started.
C10_Witness ==
    /\ phase = "Failed"
    /\ rctx.steps = <<"Scanning", "Loading">>
    /\ refreshResult.elapsed_time = 3

(***************************************************************************)
(* The refresh claims.                                                     *)
(***************************************************************************)
Roots == {rctx.paths[i] : i \in 1..Len(rctx.paths)}

\* The faults the collaborators of a refresh can raise.
CollaboratorErrors ==
    {"Error loading data", "stat failed", "get_or_create_collection failed",
     "embedding failed", "persist failed"}

NoRoots == refreshSeq > 0 /\ rctx.paths = << >>

NoCandidates ==
    /\ refreshSeq > 0
    /\ rctx.paths # << >>
    /\ \A r \in Roots : ~RootExists(r) \/ TreeFiles(r) = << >>

AllExcluded ==
    /\ Len(rctx.steps) >= 2
    /\ rctx.docs # << >>
    /\ \A i \in 1..Len(rctx.docs) : is_header_generated(FileText(rctx.docs[i]))

\* C11: a refresh whose root list is empty, whose roots hold no candidate
\* file, or whose loaded documents all carry a generated header never reaches
\* embedding or persisting, writes nothing, and returns success = false with
\* the error of its case.
C11_EmptyCorpusSurfaced ==
    /\ (NoRoots \/ NoCandidates \/ AllExcluded) =>
          /\ phase \notin {"Embedding", "Persisting", "Done"}
          /\ \A i \in 1..Len(rctx.steps) : rctx.steps[i] \notin {"Embedding", "Persisting"}
          /\ persisted = rctx.before
    /\ NoRoots =>
          /\ phase = "Failed" /\ rctx.steps = << >>
          /\ ~refreshResult.success
          /\ refreshResult.error = "No valid paths provided"
    /\ (NoCandidates /\ phase # "Scanning") =>
          /\ phase = "Failed" /\ rctx.steps = <<"Scanning">>
          /\ ~refreshResult.success
          /\ refreshResult.error
                = "No .cs files found in any of the specified paths after filtering"
    /\ (AllExcluded /\ phase # "Filtering") =>
          /\ phase = "Failed" /\ rctx.steps = <<"Scanning", "Loading", "Filtering">>
          /\ ~refreshResult.success
          /\ refreshResult.error = NO_DOCUMENTS_MSG

\* A refresh over an existing corpus failed because the content filter left
\* no document.
C11_Witness ==
    /\ phase = "Failed"
    /\ AllExcluded
    /\ refreshResult.error = NO_DOCUMENTS_MSG
    /\ Len(chunks) >= 1

MissingRoots == {r \in Roots : ~RootExists(r)}

\* The files of the existing roots, in the order of the roots.
RECURSIVE ExistingFiles(_)
ExistingFiles(paths) ==
    IF paths = << >> THEN << >>
    ELSE (IF RootExists(Head(paths)) THEN TreeFiles(Head(paths)) ELSE << >>)
         \o ExistingFiles(Tail(paths))

Indexable(paths) ==
    \E i \in 1..Len(ExistingFiles(paths)) :
        ~is_header_generated(FileText(ExistingFiles(paths)[i]))

\* C12: when some root of the list does not exist, the scan still collects
\* the files of every existing root, before and after it, in the order of the
\* roots; the result of a successful refresh counts zero files for the
\* missing root; and if an existing root holds an indexable file the refresh
\* fails only when a collaborator raises.
C12_MissingRootSkipped ==
    (MissingRoots # {} /\ Len(rctx.steps) >= 1) =>
        /\ rctx.files = ExistingFiles(rctx.paths)
        /\ rctx.total = Len(ExistingFiles(rctx.paths))
        /\ phase = "Done" =>
              /\ DOMAIN refreshResult.path_stats = Roots
              /\ \A r \in MissingRoots : refreshResult.path_stats[r] = 0
              /\ \A r \in Roots \ MissingRoots :
                    refreshResult.path_stats[r] = Len(TreeFiles(r))
        /\ (phase = "Failed" /\ Indexable(rctx.paths)) =>
              refreshResult.error \in CollaboratorErrors

\* A refresh whose second root of three does not exist succeeded with the
\* files of the first and of the third.
C12_Witness ==
    /\ phase = "Done"
    /\ rctx.paths = <<"r1", "nx", "r2">>
    /\ rctx.files = <<2, 1, 3>>
    /\ refreshResult.success
    /\ refreshResult.path_stats["nx"] = 0
    /\ refreshResult.indexed_files = 2

(***************************************************************************)
(* The parsing claim.                                                      *)
(***************************************************************************)
\* The separator of a string: the newline if it holds one, else the comma if
\* it holds one.
Separator(str) ==
    IF In("\n", str) THEN "\n" ELSE IF In(",", str) THEN "," ELSE "none"

Cuts(str) == {0, Len(str) + 1} \cup {i \in 1..Len(str) : str[i] = Separator(str)}

\* The entries of a string: for every two neighbouring cuts with a character
\* that is not blank between them, the positions of the first and of the
\* last such character.
Entries(str) ==
    {<<lo, hi>> \in (1..Len(str)) \X (1..Len(str)) :
        /\ lo <= hi
        /\ ~IsSpace(str[lo]) /\ ~IsSpace(str[hi])
        /\ \E a \in Cuts(str), b \in Cuts(str) :
              /\ a < lo /\ hi < b
              /\ \A c \in Cuts(str) : c <= a \/ c >= b
              /\ \A i \in (a + 1)..(b - 1) : (i < lo \/ i > hi) => IsSpace(str[i])}

Parsed == callOut[1]

\* C13: the roots parsed from a string are its entries in order, an entry
\* being what lies between two neighbouring separators (newlines if the
\* string holds one, else commas), trimmed and not empty; "a,b,a" and
\* "a\nb" followed by "\na" give three roots, a string of commas and blanks
\* none, and a comma in a string with a newline separates nothing.
C13_RootParsing ==
    callOut # << >> =>
        /\ Len(Parsed) = Cardinality(Entries(callIn))
        /\ \A e \in Entries(callIn) :
              Parsed[Cardinality({d \in Entries(callIn) : d[1] < e[1]}) + 1]
                = SubSeq(callIn, e[1], e[2])
        /\ callIn = <<"a", ",", "b", ",", "a">> => Parsed = <<<<"a">>, <<"b">>, <<"a">>>>
        /\ callIn = <<"a", "\n", "b", "\n", "a">> => Parsed = <<<<"a">>, <<"b">>, <<"a">>>>
        /\ (\A i \in 1..Len(callIn) : callIn[i] \in {",", " "}) => Parsed = << >>
        /\ In("\n", callIn) =>
              \A k \in 1..Len(Parsed) : ~In("\n", Parsed[k])
        /\ callIn = <<"a", ",", "b", "\n", "a">> => Parsed = <<<<"a", ",", "b">>, <<"a">>>>

\* A string with a comma, a newline and blanks to trim was parsed into two
\* roots, the first holding the comma.
C13_Witness ==
    /\ callOut # << >>
    /\ callIn = <<" ", "a", ",", "\n", "b">>
    /\ Parsed = <<<<"a", ",">>, <<"b">>>>

(***************************************************************************)
(* The tagging claim.                                                      *)
(***************************************************************************)
\* The file lies under the root: the segments of the root are the first
\* segments of the file's path.
Under(file, root) ==
    /\ Len(RootPath(root)) <= Len(ResolvedPath(file))
    /\ \A j \in 1..Len(RootPath(root)) : ResolvedPath(file)[j] = RootPath(root)[j]

Matching(file) == {k \in 1..Len(rctx.paths) : Under(file, rctx.paths[k])}

FirstMatching(file) == CHOOSE k \in Matching(file) : \A l \in Matching(file) : k <= l

LastSegment(root) == RootPath(root)[Len(RootPath(root))]

\* C14: once the filtering step has succeeded every document left carries
\* the last segment of the first root of the list it lies under, and
\* "unknown" if it lies under none.
C14_SourceRepoFirstMatch ==
    phase \in {"Embedding", "Persisting", "Done"} =>
        /\ Len(rctx.repos) = Len(rctx.filtered)
        /\ \A i \in 1..Len(rctx.filtered) :
              IF Matching(rctx.filtered[i]) = {}
              THEN rctx.repos[i] = "unknown"
              ELSE rctx.repos[i] = LastSegment(rctx.paths[FirstMatching(rctx.filtered[i])])

\* Both copies of file 1, the one scanned through r1/sub and the one scanned
\* through r1, are tagged "sub", the root that comes first; the refresh
\* before it indexed the file that resolves outside its root.
C14_Witness ==
    /\ phase = "Done"
    /\ rctx.paths = <<"r1/sub", "r1">>
    /\ rctx.filtered = <<1, 1>>
    /\ rctx.repos = <<"sub", "sub">>
    /\ rctx.prev.paths = <<"r4", "r2">>
    /\ rctx.prev.done
    /\ chunks = <<5, 3, 1, 1>>

(***************************************************************************)
(* The counting claims.                                                    *)
(***************************************************************************)
\* The files of the tree the roots cover.
TreeFileSet ==
    UNION {{TreeFiles(r)[i] : i \in 1..Len(TreeFiles(r))} : r \in Roots \ MissingRoots}

Genuine == {f \in TreeFileSet : ~is_header_generated(FileText(f))}

GeneratedMarked == {f \in TreeFileSet : is_header_generated(FileText(f))}

\* Two entries of the root list cover a common directory.
Overlapping ==
    \E k \in 1..Len(rctx.paths), l \in 1..Len(rctx.paths) :
        /\ k # l
        /\ RootExists(rctx.paths[k]) /\ RootExists(rctx.paths[l])
        /\ IsPrefix(RootPath(rctx.paths[k]), RootPath(rctx.paths[l]))

\* C15: a successful refresh over roots that cover a tree once, holding N
\* genuine files and M files with a generated header, reports
\* indexed_files = N and excluded_files >= M.
C15_RoundTripCounts ==
    (phase = "Done" /\ ~Overlapping) =>
        /\ refreshResult.indexed_files = Cardinality(Genuine)
        /\ refreshResult.excluded_files >= Cardinality(GeneratedMarked)
        /\ refreshResult.total_files = Cardinality(TreeFileSet)

\* The refresh over r1 and r2 indexed the two genuine files, one of them with
\* a marker past the header, and excluded the generated one.
C15_Witness ==
    /\ phase = "Done"
    /\ rctx.paths = <<"r1", "r2">>
    /\ Genuine = {1, 3}
    /\ GeneratedMarked = {2}
    /\ refreshResult.indexed_files = 2
    /\ refreshResult.excluded_files >= 1

\* C16: a successful refresh, every candidate file of which was loaded as
\* one document, reports as excluded_files the candidate files that were not
\* indexed, each once: indexed_files + excluded_files = total_files.
C16_ExcludedCountedOnce ==
    (phase = "Done" /\ Len(rctx.docs) = rctx.total) =>
        /\ refreshResult.excluded_files = rctx.total - Len(rctx.filtered)
        /\ refreshResult.indexed_files + refreshResult.excluded_files
              = refreshResult.total_files

\* C17: a successful refresh that directly follows a successful refresh over
\* the same list of roots reports the same indexed_files.
C17_RefreshIdempotentCount ==
    (phase = "Done" /\ rctx.prev.done /\ rctx.prev.paths = rctx.paths) =>
        refreshResult.indexed_files = rctx.prev.indexed

\* Two refreshes over r1 and r2 in a row succeeded, the second on top of the
\* records the first left.
C17_Witness ==
    /\ phase = "Done"
    /\ rctx.prev.done
    /\ rctx.prev.paths = <<"r1", "r2">>
    /\ rctx.paths = <<"r1", "r2">>
    /\ refreshResult.indexed_files = 2
    /\ Len(chunks) = 4

(***************************************************************************)
(* The scan claim.                                                         *)
(***************************************************************************)
Scanned == callOut[1]

Parts(path) == {path[i] : i \in 1..Len(path)}

\* C18: the walk lists no directory that has an excluded name among the
\* directories leading to it from the root, so no file below such a
\* directory is listed; and no path of the output has an excluded directory
\* name as a part (those of the root included) or ends with a generated
\* suffix.  Every path of the output is a file of the tree ending in .cs.
C18_ScanPrunesExcluded ==
    callOut # << >> =>
        /\ \A k \in 1..Len(Scanned.walked) :
              Parts(Scanned.walked[k]) \cap EXCLUDED_DIRS = {}
        /\ \A f \in callIn.tree :
              Parts(f.dir) \cap EXCLUDED_DIRS # {} =>
                  /\ \A k \in 1..Len(Scanned.walked) : Scanned.walked[k] # f.dir
                  /\ \A k \in 1..Len(Scanned.all_files) :
                        Scanned.all_files[k] # (callIn.repo_path \o f.dir) \o <<f.name>>
        /\ \A k \in 1..Len(Scanned.all_files) :
              LET path == Scanned.all_files[k]
                  name == path[Len(path)]
              IN  /\ Parts(path) \cap EXCLUDED_DIRS = {}
                  /\ \A suffix \in GENERATED_SUFFIXES : ~endswith(name, suffix)
                  /\ endswith(name, <<".cs">>)
                  /\ \E f \in callIn.tree :
                        path = (callIn.repo_path \o f.dir) \o <<f.name>>

\* A source file under src was listed and kept while the source file of the
\* same tree under src/obj was not listed.
C18_Witness ==
    /\ callOut # << >>
    /\ callIn.repo_path = <<"w">>
    /\ callIn.tree = {[dir |-> <<"src">>, name |-> <<"A", ".cs">>],
                       [dir |-> <<"src", "obj">>, name |-> <<"A", ".cs">>]}
    /\ Scanned.walked = <<<< >>, <<"src">>>>
    /\ Scanned.all_files = <<<<"w", "src", <<"A", ".cs">>>>>>

(***************************************************************************)
(* The header claim.                                                       *)
(***************************************************************************)
\* A marker lies in the text from position i on.
MarkerAt(text, i) ==
    \E marker \in GENERATED_MARKERS :
        /\ i + Len(marker) - 1 <= Len(text)
        /\ \A j \in 1..Len(marker) : text[i + j - 1] = marker[j]

SameHeader ==
    \A i \in 1..HEADER_CHECK_CHARS :
        /\ i <= Len(callIn.text) <=> i <= Len(callIn.other)
        /\ i <= Len(callIn.text) => callIn.text[i] = callIn.other[i]

\* C19: two texts with the same first HEADER_CHECK_CHARS characters get the
\* same answer, whatever follows in either, a marker past the header or one
\* that straddles its end included.
C19_HeaderOnly ==
    (callOut # << >> /\ SameHeader) => callOut[1].text = callOut[1].other

\* Two texts with the same header, neither generated: one has a marker that
\* straddles the end of the header, the other a marker right after it.
C19_Witness ==
    /\ callOut # << >>
    /\ SameHeader
    /\ MarkerAt(callIn.text, HEADER_CHECK_CHARS)
    /\ MarkerAt(callIn.other, HEADER_CHECK_CHARS + 1)
    /\ Len(callIn.other) < Len(callIn.text) \/ Len(callIn.other) > Len(callIn.text)
    /\ ~callOut[1].text
    /\ ~callOut[1].other

(***************************************************************************)
(* The extraction claim.                                                   *)
(***************************************************************************)
Extracted == callOut[1]

PublicMethods ==
    {k \in 1..Len(callIn) : callIn[k].access = "public" /\ callIn[k].kind = "method"}

\* The public methods the pattern can match: those with at most one
\* modifier after public.
Matchable == {k \in PublicMethods : Len(callIn[k].mods) <= 1}

FirstMatchable(n) ==
    CHOOSE k \in Matchable :
        callIn[k].name = n /\ \A l \in Matchable : callIn[l].name = n => k <= l

\* C20: every name returned is the name of a method declared with the
\* modifier public; the name of a method that is only declared private,
\* internal or without an access modifier is not returned; no name is
\* returned twice; and the names stand in the order of the first public
\* declaration matched of each.
C20_PublicMethodsOnly ==
    callOut # << >> =>
        /\ \A i \in 1..Len(Extracted) :
              \E k \in PublicMethods : callIn[k].name = Extracted[i]
        /\ \A k \in 1..Len(callIn) :
              (/\ callIn[k].kind = "method"
               /\ callIn[k].access # "public"
               /\ \A l \in PublicMethods : callIn[l].name # callIn[k].name)
              => \A i \in 1..Len(Extracted) : Extracted[i] # callIn[k].name
        /\ \A i \in 1..Len(Extracted), j \in 1..Len(Extracted) :
              Extracted[i] = Extracted[j] => i = j
        /\ {Extracted[i] : i \in 1..Len(Extracted)} = {callIn[k].name : k \in Matchable}
        /\ \A i \in 1..Len(Extracted), j \in 1..Len(Extracted) :
              i < j => FirstMatchable(Extracted[i]) < FirstMatchable(Extracted[j])

\* Two public declarations of Foo gave one entry, next to a private method
\* of the same name pattern whose return type ends with "public".
C20_Witness ==
    /\ callOut # << >>
    /\ Len(callIn) = MaxDecls
    /\ callIn[1] = [access |-> "public", mods |-> <<"static">>, type |-> "void",
                     name |-> "Foo", kind |-> "method"]
    /\ callIn[2] = [access |-> "public", mods |-> << >>, type |-> "Republic",
                     name |-> "Foo", kind |-> "method"]
    /\ Extracted = <<"Foo">>

\* C21: the name of every public method declaration is returned, whichever
\* of the modifiers static, virtual, override and async stand between public
\* and the return type, two of them included.
C21_EveryModifierCombination ==
    callOut # << >> =>
        \A k \in PublicMethods :
            \E i \in 1..Len(Extracted) : Extracted[i] = callIn[k].name

(***************************************************************************)
(* The truncation claim.                                                   *)
(***************************************************************************)
Metadata == callOut[1]

Content == Flatten(callIn.members)

\* The maximum length the extractor was configured with.
Budget == MetadataExtractor(callIn.max_length)

Ellipsis == <<".", ".", ".">>

\* The joined string of a field before truncation.
Joined(key) ==
    IF key = "defined_types" THEN join(extract_types(Content, 1))
    ELSE join([k \in 1..Len(extract_methods(Content)) |-> Spell(extract_methods(Content)[k])])

\* C22: each of the fields defined_types and methods is present when its list
\* is not empty; a joined string of at most L characters is stored unchanged;
\* a longer one is replaced by a string of at most L characters that is a
\* prefix of the original followed by the ellipsis marker.
C22_TruncatedWithinBudget ==
    callOut # << >> =>
        \A key \in {"defined_types", "methods"} :
            Joined(key) # << >> =>
                /\ key \in DOMAIN Metadata
                /\ Len(Joined(key)) <= Budget => Metadata[key] = Joined(key)
                /\ Len(Joined(key)) > Budget =>
                      /\ Len(Metadata[key]) <= Budget
                      /\ \E p \in 0..Len(Joined(key)) :
                            Metadata[key] = Take(Joined(key), p) \o Ellipsis

(***************************************************************************)
(* The batch size claims.                                                  *)
(***************************************************************************)
BatchSize == callOut[1]

\* C23: for a store that advertises a maximum the batch size is the smaller
\* of the ceiling and the maximum divided by the safety divisor; for a store
\* that advertises none it is the default batch size.
C23_BatchSizeFormula ==
    callOut # << >> =>
        /\ callIn.chroma_client.attr = "number" =>
              BatchSize = Min(callIn.config.MAX_BATCH_SIZE,
                              callIn.chroma_client.max_batch_size
                                  \div callIn.config.BATCH_SIZE_DIVISOR)
        /\ callIn.chroma_client.attr # "number" =>
              BatchSize = callIn.config.DEFAULT_BATCH_SIZE

\* C29: for a store that advertises a maximum of 1 or more, a maximum
\* smaller than the safety divisor included, the batch size is at least 1.
C29_BatchSizePositive ==
    (callOut # << >> /\ callIn.chroma_client.attr = "number"
        /\ callIn.chroma_client.max_batch_size >= 1) => BatchSize >= 1

(***************************************************************************)
(* The degradation claim.                                                  *)
(***************************************************************************)
\* The stages a SearchResult reports as skipped.  Its fields are
\* response_text, source_nodes, success and error; the only text the engine
\* writes about a skipped stage is the one about the LLM.
SkippedStagesReported(result) ==
    IF result.response_text = LLM_MARKER THEN {"generation"} ELSE {}

\* C24: a successful search that skipped a stage reports that stage in its
\* SearchResult: lexical fusion when the dense retriever ran alone,
\* reranking when no reranker was constructed, generation when the query
\* engine raised.
C24_DegradationMarked ==
    (Loaded /\ Result.success) =>
        /\ Trace.final = "vector" => "fusion" \in SkippedStagesReported(Result)
        /\ ~Trace.reranker => "rerank" \in SkippedStagesReported(Result)
        /\ Trace.path = "fallback" => "generation" \in SkippedStagesReported(Result)

(***************************************************************************)
(* The breakdown claim.                                                    *)
(***************************************************************************)
RECURSIVE SumOver(_, _)
SumOver(stats, keys) ==
    IF keys = {} THEN 0
    ELSE LET key == CHOOSE k \in keys : TRUE
         IN  stats[key] + SumOver(stats, keys \ {key})

\* C30: the total_files of a successful refresh is the sum of the counts of
\* its per-root breakdown and the number of candidate files under its roots,
\* each counted once, a root given twice or a root inside another included.
C30_TotalMatchesBreakdown ==
    phase = "Done" =>
        /\ refreshResult.total_files
              = SumOver(refreshResult.path_stats, DOMAIN refreshResult.path_stats)
        /\ refreshResult.total_files = Cardinality(TreeFileSet)

(***************************************************************************)
(* The cache claims.                                                       *)
(***************************************************************************)
\* C28: the BM25 retriever a search hands to the fusion retriever has
\* similarity_top_k = top_k * BM25_MULTIPLIER for the top_k of that search,
\* whether it was built by the search or taken from the cache.
C28_SparseSizedForCall ==
    (Loaded /\ Trace.sparse \in {"built", "cached"}) =>
        searchOut.ret.k = searchIn.top_k * BM25_MULTIPLIER

\* The cache changes in a step only by clear_cache, which the refresh tool
\* calls first and which empties it, or by a search that found it empty and
\* built the retriever it then holds.
CacheStep ==
    bm25' # bm25 =>
        \/ bm25' = NoRetriever /\ refreshSeq' = refreshSeq + 1
        \/ /\ bm25 = NoRetriever
           /\ searchOut'.called
           /\ searchOut'.trace.sparse = "built"
           /\ bm25' = searchOut'.ret

\* After a search: a populated cache was reused as it is and is still held;
\* an empty cache led to a build attempt if the search got that far; a build
\* that failed or found no nodes left the cache empty.
CacheAfterSearch ==
    searchOut.called =>
        /\ searchOut.cacheBefore # NoRetriever =>
              /\ bm25 = searchOut.cacheBefore
              /\ Trace.sparse \in {"cached", "notrun"}
              /\ Trace.sparse = "cached" => searchOut.ret = searchOut.cacheBefore
        /\ (searchOut.cacheBefore = NoRetriever /\ Trace.sparse # "notrun") =>
              Trace.sparse \in {"built", "failed", "nonodes"}
        /\ Trace.sparse \in {"failed", "nonodes"} => bm25 = NoRetriever
        /\ Trace.sparse = "built" => bm25 = searchOut.ret

\* C27: the engine's one cached BM25 retriever changes only by a successful
\* build or by clear_cache; once populated it is reused unchanged by every
\* later search until clear_cache, and a failed build leaves it empty, so the
\* next search builds again.
C27_CacheLifecycle == []CacheAfterSearch /\ [][CacheStep]_vars

\* A search reused, unchanged, the retriever an earlier search with top_k = 2
\* had built after the second refresh.
C27_Witness ==
    /\ searchOut.called
    /\ Trace.sparse = "cached"
    /\ bm25 = searchOut.cacheBefore
    /\ bm25.k = 2 * BM25_MULTIPLIER
    /\ bm25.epoch = 2

(***************************************************************************)
(* The concurrency claims.                                                 *)
(***************************************************************************)
\* The cache holds a retriever that caller c, whose search started while the
\* last refresh was running, built from the corpus as it was before that
\* refresh, and the corpus is another now.
StaleFrom(c) ==
    /\ bm25 # NoRetriever
    /\ callers[c].published
    /\ callers[c].obj = bm25
    /\ callers[c].during = refreshSeq
    /\ bm25.n = Len(rctx.before[2])
    /\ bm25.n # Len(chunks)

\* C25: once a refresh has completed with success the cache holds no
\* retriever that a search started during that refresh built from the corpus
\* as it was before the refresh.
C25_RefreshAtomicForSearch ==
    phase = "Done" => \A c \in Callers : ~StaleFrom(c)

\* C26: the retriever in the cache is always one whose construction has
\* finished, no caller reads or publishes one that is not, and when callers
\* that found the cache empty have each built one the cache holds one of
\* the finished retrievers.
C26_PopulateThenPublish ==
    /\ ~CachePartial
    /\ \A c \in Callers :
          /\ ~callers[c].readPartial
          /\ callers[c].published => callers[c].complete
          /\ callers[c].ret # NoRetriever =>
                \E d \in Callers : callers[d].complete /\ callers[d].obj = callers[c].ret
    /\ bm25 # NoRetriever =>
          \E c \in Callers :
              callers[c].published /\ callers[c].complete /\ callers[c].obj = bm25

\* Both callers found the cache empty and built a retriever, each for its own
\* top_k; the cache holds the one assigned last.
C26_Witness ==
    /\ callers["a"].pc = "idle"
    /\ callers["b"].pc = "idle"
    /\ callers["a"].how = "built"
    /\ callers["b"].how = "built"
    /\ callers["a"].obj # callers["b"].obj
    /\ callers["a"].complete /\ callers["a"].published
    /\ callers["b"].complete /\ callers["b"].published
    /\ bm25 = callers["b"].obj

====
